---- MODULE Spec2Model ----
(***************************************************************************)
(* The batch classification pipeline of classifyComments_upgrade.py:       *)
(* lambda_handler -> fetch_comments_from_s3 -> classify_and_upload_comments *)
(* (partition, prompt, call_openai_api under its retry policy,             *)
(* reconciliation, save_comments_to_csv, upload_comments_batch_to_s3).     *)
(*                                                                         *)
(* Python values are modelled as follows.  A dict is a function whose      *)
(* DOMAIN is its key set.  A value whose type the code does not control    *)
(* (the parsed service result and its entries) is wrapped as               *)
(* [isdict |-> BOOLEAN, d |-> dict].  A list is a sequence.  batch_comments *)
(* holds references to the dicts of comments, so a batch is the sequence   *)
(* of the positions of its comments in the list.                           *)
(***************************************************************************)
EXTENDS Integers, Sequences, FiniteSets, TLC

\* Most rows the fetched CSV file holds.
MaxN == 3
\* Largest positive batch_size an event carries.
MaxB == 2

\* classify_and_upload_comments, line 127: the default of its own parameter.
SIGNATURE_BATCH_SIZE == 50

\* stop_after_attempt(3)
MAX_ATTEMPTS == 3
\* event.get("batch_size", 20)
DEFAULT_BATCH_SIZE == 20
\* wait_exponential(multiplier=1, min=60, max=70)
WAIT_MULTIPLIER == 1
WAIT_MIN == 60
WAIT_MAX == 70

SENTIMENT_ENUM == <<"JOY", "ANGER", "SADNESS", "SURPRISE", "FEAR", "DISGUST">>
POSITIVE_STATUS_ENUM == <<"POSITIVE", "NEGATIVE", "NEUTRAL">>
COMMENT_CATEGORY_ENUM == <<"REACTION", "FEEDBACK", "QUESTION", "SPAM", "INSULT">>

UNKNOWN == "UNKNOWN"
\* Python's None as a value of a string-valued field (dict.get on a missing key).
NONE == "<None>"
\* The key csv.DictReader files surplus cells of a row under (restkey).
RESTKEY == "<restkey>"

S3_BUCKET == "bucket"
VIDEO_ID == "v1"

----------------------------------------------------------------------------
(* Python primitives *)

EmptyDict == [k \in {} |-> NONE]

\* d.get(k, default)
Get(d, k, default) == IF k \in DOMAIN d THEN d[k] ELSE default

\* d[k] = v
Put(d, k, v) == [x \in (DOMAIN d) \cup {k} |-> IF x = k THEN v ELSE d[x]]

\* v in LIST
In(v, list) == \E j \in 1..Len(list) : list[j] = v

Min(a, b) == IF a < b THEN a ELSE b
Max(a, b) == IF a > b THEN a ELSE b

\* a // b for b # 0 (floor division)
FloorDiv(a, b) == IF b > 0 THEN a \div b ELSE (0 - a) \div (0 - b)

\* s[i : j + 1]: the slice runs one element into the next batch.
SliceInclusive(n, i, j) == [k \in 1..Max(0, Min(j + 1, n) - i) |-> i + k]

\* The positions of s[i : j] for 0 <= i, j (1-based positions of a 0-based slice).
Slice(n, i, j) == [k \in 1..Max(0, Min(j, n) - i) |-> i + k]

\* range(0, stop + 1, step): the range yields an index at the end of the list.
RangeHasNextInclusive(i, stop, step) == IF step > 0 THEN i <= stop ELSE i >= stop

\* Whether range(0, stop, step) yields the index i (step # 0).
RangeHasNext(i, stop, step) == IF step > 0 THEN i < stop ELSE i > stop

----------------------------------------------------------------------------
(* The inputs: the event, the fetched rows, the service's answers *)

\* The batch_size entry of the event: absent, an integer, a string, or null.
BatchSizeInputs ==
    {[kind |-> "absent", val |-> 0], [kind |-> "null", val |-> 0],
     [kind |-> "text", val |-> 0]}
    \cup {[kind |-> "int", val |-> v] : v \in (0 - 1)..MaxB}

Events == [has_video_id : BOOLEAN, batch_size : BatchSizeInputs]

\* Row p of the CSV file as csv.DictReader yields it; a row with more cells
\* than the header carries them under the restkey.
Row(p, surplus) ==
    IF surplus
    THEN [k \in {"comment_id", "text_display", RESTKEY} |->
            IF k = "comment_id" THEN <<"c", p>>
            ELSE IF k = "text_display" THEN <<"t", p>> ELSE <<"x", p>>]
    ELSE [k \in {"comment_id", "text_display"} |->
            IF k = "comment_id" THEN <<"c", p>> ELSE <<"t", p>>]

\* The files the source may hold: n rows, at most one of them (row r) with
\* surplus cells.
Files == {[p \in 1..n |-> Row(p, p = r)] : n \in 0..MaxN, r \in 0..MaxN}

\* What s3_client.get_object does: the object, NoSuchKey, or another error.
FetchOutcomes ==
    {[kind |-> "ok", rows |-> f] : f \in Files}
    \cup {[kind |-> "NoSuchKey", rows |-> <<>>], [kind |-> "error", rows |-> <<>>]}

\* What the service says about one comment.
EntryChoices == {"absent", "valid", "partial", "invalid"}
\* What else the service's list holds, after the entries of the batch: an
\* entry without comment_id, an entry that is no object, an entry of a
\* comment_id the batch does not hold, a second entry of the first comment.
ExtraChoices == {"none", "no_id", "not_dict", "foreign", "dup_first"}

Wrap(d) == [isdict |-> TRUE, d |-> d]
NotADict == [isdict |-> FALSE, d |-> EmptyDict]

\* A schema-conforming entry.
ValidEntry(id) ==
    [k \in {"comment_id", "sentiment", "positive_status", "comment_category",
            "keywords"} |->
       CASE k = "comment_id" -> id
         [] k = "sentiment" -> "JOY"
         [] k = "positive_status" -> "POSITIVE"
         [] k = "comment_category" -> "REACTION"
         [] OTHER -> <<"k1", "k2", "k3">>]

\* A valid sentiment, an unlisted positive_status, no category, no keywords.
PartialEntry(id) ==
    [k \in {"comment_id", "sentiment", "positive_status"} |->
       CASE k = "comment_id" -> id
         [] k = "sentiment" -> "ANGER"
         [] OTHER -> "MIXED"]

\* Every categorical value outside its own enumeration, and four keywords.
InvalidEntry(id) ==
    [k \in {"comment_id", "sentiment", "positive_status", "comment_category",
            "keywords"} |->
       CASE k = "comment_id" -> id
         [] k = "sentiment" -> "POSITIVE"
         [] k = "positive_status" -> "joy"
         [] k = "comment_category" -> NONE
         [] OTHER -> <<"k1", "k2", "k3", "k4">>]

\* A schema-conforming entry with other values.
OtherValidEntry(id) ==
    [ValidEntry(id) EXCEPT !["sentiment"] = "FEAR",
                           !["positive_status"] = "NEGATIVE",
                           !["comment_category"] = "SPAM"]

EntryOf(id, choice) ==
    CASE choice = "valid" -> Wrap(ValidEntry(id))
      [] choice = "partial" -> Wrap(PartialEntry(id))
      [] OTHER -> Wrap(InvalidEntry(id))

ExtraOf(ids, extra) ==
    CASE extra = "no_id" -> <<Wrap([k \in {"sentiment"} |-> "JOY"])>>
      [] extra = "not_dict" -> <<NotADict>>
      [] extra = "foreign" -> <<Wrap(OtherValidEntry(<<"c", 0>>))>>
      [] extra = "dup_first" /\ Len(ids) > 0 -> <<Wrap(InvalidEntry(ids[1]))>>
      [] OTHER -> <<>>

RECURSIVE EntriesOf(_, _, _)
EntriesOf(ids, choice, p) ==
    IF p > Len(ids) THEN <<>>
    ELSE (IF choice[p] = "absent" THEN <<>> ELSE <<EntryOf(ids[p], choice[p])>>)
         \o EntriesOf(ids, choice, p + 1)

\* The values json.loads can return for a request that lists ids: a value
\* that is no object, an object without "comments", or an object whose
\* "comments" is a list of entries.
Responses(ids) ==
    {NotADict, Wrap(EmptyDict)}
    \cup {Wrap([k \in {"comments"} |-> EntriesOf(ids, ch, 1) \o ExtraOf(ids, x)]) :
            ch \in [1..Len(ids) -> EntryChoices], x \in ExtraChoices}

\* The responses in which the service treats every comment of the request
\* alike.
UniformResponses(ids) ==
    {NotADict, Wrap(EmptyDict)}
    \cup {Wrap([k \in {"comments"} |->
                  EntriesOf(ids, [q \in 1..Len(ids) |-> a], 1) \o ExtraOf(ids, x)]) :
            a \in EntryChoices, x \in ExtraChoices}

\* Two responses: a value that is no object, and every comment of the
\* request with a schema-conforming entry.
PlainResponses(ids) ==
    {NotADict,
     Wrap([k \in {"comments"} |->
             EntriesOf(ids, [q \in 1..Len(ids) |-> "valid"], 1)])}

\* How one attempt of the service call can fail: the API call raises, or
\* json.loads raises on the body.
AttemptFailures == {"APIError", "JSONDecodeError"}

----------------------------------------------------------------------------
(* call_openai_api's retry policy *)

\* The policy stops one attempt late.
RetryStopsLate(attempt_number) == attempt_number > MAX_ATTEMPTS

\* stop_after_attempt(3): no attempt follows the attempt numbered MAX_ATTEMPTS.
RetryStops(attempt_number) == attempt_number >= MAX_ATTEMPTS

\* An exception of json.loads would not be retried.
RetryIfNotParseError(e) == e # "JSONDecodeError"

\* retry_if_exception_type(Exception), line 99: every exception of an
\* attempt is retried.
RetryIf(e) == TRUE

RECURSIVE Pow2(_)
Pow2(e) == IF e <= 0 THEN 1 ELSE 2 * Pow2(e - 1)

\* The exponential value would not be clamped.
RetryWaitUnclamped(attempt_number) == WAIT_MULTIPLIER * Pow2(attempt_number - 1)

\* wait_exponential(multiplier=1, min=60, max=70) after the attempt numbered
\* attempt_number: multiplier * 2^(attempt_number - 1), clamped.
RetryWait(attempt_number) ==
    Max(Max(0, WAIT_MIN), Min(WAIT_MULTIPLIER * Pow2(attempt_number - 1), WAIT_MAX))

----------------------------------------------------------------------------
(* classify_and_upload_comments: the pure parts *)

\* total_batches = (len(comments) + batch_size - 1) // batch_size
TotalBatches(n, B) == FloorDiv(n + B - 1, B)

\* The request of a batch: one "<comment_id> : <text_display>," line per
\* comment, in batch order, after the template.
RECURSIVE PromptLines(_, _, _)
PromptLines(cs, idx, p) ==
    IF p > Len(idx) THEN <<>>
    ELSE <<[comment_id |-> cs[idx[p]]["comment_id"],
            text |-> cs[idx[p]]["text_display"]]>>
         \o PromptLines(cs, idx, p + 1)

\* The lines of a batch would be added to those of the batches before it.
BuildPromptAccumulated(cs, idx) ==
    IF Len(idx) = 0 THEN <<>>
    ELSE PromptLines(cs, [p \in 1..idx[Len(idx)] |-> p], 1)

BuildPrompt(cs, idx) == PromptLines(cs, idx, 1)

\* The exception the dict comprehension
\*   {c["comment_id"]: c for c in classified.get("comments", [])}
\* raises, "" when it raises none.
RECURSIVE EntriesRaise(_, _)
EntriesRaise(entries, j) ==
    IF j > Len(entries) THEN ""
    ELSE IF ~entries[j].isdict THEN "TypeError"
    ELSE IF "comment_id" \notin DOMAIN entries[j].d THEN "KeyError"
    ELSE EntriesRaise(entries, j + 1)

ClassificationDictRaises(classified) ==
    IF ~classified.isdict THEN "AttributeError"
    ELSE EntriesRaise(Get(classified.d, "comments", <<>>), 1)

\* The dict the comprehension builds: a later entry of a comment_id replaces
\* an earlier one.
ClassificationDict(classified) ==
    LET entries == Get(classified.d, "comments", <<>>)
        ids == {entries[j].d["comment_id"] : j \in 1..Len(entries)}
        last(id) == CHOOSE j \in 1..Len(entries) :
                       /\ entries[j].d["comment_id"] = id
                       /\ \A m \in (j + 1)..Len(entries) :
                             entries[m].d["comment_id"] # id
    IN  [id \in ids |-> entries[last(id)].d]

\* class_result.get(field, "UNKNOWN"), the enumeration not consulted.
Unchecked(class_result, field, enum) == Get(class_result, field, UNKNOWN)

\* class_result.get(field, "UNKNOWN") if class_result.get(field) in ENUM
\* else "UNKNOWN"
Checked(class_result, field, enum) ==
    IF In(Get(class_result, field, NONE), enum)
    THEN Get(class_result, field, UNKNOWN)
    ELSE UNKNOWN

\* comment_id would be taken from the entry of the service as well.
ReconcileFieldsEchoId(comment, class_result) ==
    LET c0 == Put(comment, "comment_id", Get(class_result, "comment_id", <<>>))
        c1 == Put(c0, "sentiment",
                  Checked(class_result, "sentiment", SENTIMENT_ENUM))
        c2 == Put(c1, "positive_status",
                  Checked(class_result, "positive_status", POSITIVE_STATUS_ENUM))
        c3 == Put(c2, "comment_category",
                  Checked(class_result, "comment_category", COMMENT_CATEGORY_ENUM))
    IN  Put(c3, "keywords", Get(class_result, "keywords", <<>>))

\* One value outside its enumeration would reset all three fields.
ReconcileFieldsAllOrNothing(comment, class_result) ==
    LET ok == /\ In(Get(class_result, "sentiment", NONE), SENTIMENT_ENUM)
              /\ In(Get(class_result, "positive_status", NONE), POSITIVE_STATUS_ENUM)
              /\ In(Get(class_result, "comment_category", NONE), COMMENT_CATEGORY_ENUM)
        c1 == Put(comment, "sentiment",
                  IF ok THEN Get(class_result, "sentiment", UNKNOWN) ELSE UNKNOWN)
        c2 == Put(c1, "positive_status",
                  IF ok THEN Get(class_result, "positive_status", UNKNOWN) ELSE UNKNOWN)
        c3 == Put(c2, "comment_category",
                  IF ok THEN Get(class_result, "comment_category", UNKNOWN) ELSE UNKNOWN)
    IN  Put(c3, "keywords", Get(class_result, "keywords", <<>>))

\* keywords would default to the marker of the other fields, in a list.
ReconcileFieldsKeywordsUnknown(comment, class_result) ==
    LET c1 == Put(comment, "sentiment",
                  Checked(class_result, "sentiment", SENTIMENT_ENUM))
        c2 == Put(c1, "positive_status",
                  Checked(class_result, "positive_status", POSITIVE_STATUS_ENUM))
        c3 == Put(c2, "comment_category",
                  Checked(class_result, "comment_category", COMMENT_CATEGORY_ENUM))
    IN  Put(c3, "keywords", Get(class_result, "keywords", <<UNKNOWN>>))

\* Lines 236-251: the four fields of one comment, from its class_result.
ReconcileFields(comment, class_result) ==
    LET c1 == Put(comment, "sentiment",
                  Checked(class_result, "sentiment", SENTIMENT_ENUM))
        c2 == Put(c1, "positive_status",
                  Checked(class_result, "positive_status", POSITIVE_STATUS_ENUM))
        c3 == Put(c2, "comment_category",
                  Checked(class_result, "comment_category", COMMENT_CATEGORY_ENUM))
    IN  Put(c3, "keywords", Get(class_result, "keywords", <<>>))

\* A comment the service sent no entry for is left as it is.
ReconcileOnlyFound(comment, classification_dict) ==
    IF comment["comment_id"] \in DOMAIN classification_dict
    THEN ReconcileFields(comment, classification_dict[comment["comment_id"]])
    ELSE comment

\* Lines 235-251: one comment, given the dict of the service's entries.
ReconcileComment(comment, classification_dict) ==
    ReconcileFields(comment,
                    Get(classification_dict, comment["comment_id"], EmptyDict))

\* The handler resets sentiment alone.
DefaultSentimentOnly(comment) == Put(comment, "sentiment", UNKNOWN)

\* Lines 274-278: the defaults of the except handler, for one comment.
DefaultComment(comment) ==
    Put(Put(Put(Put(comment, "sentiment", UNKNOWN),
                "positive_status", UNKNOWN),
            "comment_category", UNKNOWN),
        "keywords", <<>>)

\* Whether batch idx refers to the dict at position p of the list.
InBatch(idx, p) == \E k \in 1..Len(idx) : idx[k] = p

\* The list after the loop of lines 234-251 over the batch.
ReconcileBatch(cs, idx, classification_dict) ==
    [p \in 1..Len(cs) |->
        IF InBatch(idx, p) THEN ReconcileComment(cs[p], classification_dict)
        ELSE cs[p]]

\* The list after the loop of lines 274-278 over the batch.
DefaultBatch(cs, idx) ==
    [p \in 1..Len(cs) |-> IF InBatch(idx, p) THEN DefaultComment(cs[p]) ELSE cs[p]]

\* The comments of a batch, as they are now.
BatchOf(cs, idx) == [k \in 1..Len(idx) |-> cs[idx[k]]]

\* save_comments_to_csv: csv.DictWriter takes its fieldnames from the first
\* comment and raises ValueError on a row with a key outside them; None for
\* an empty list.
SaveCsvRaises(rows) ==
    /\ Len(rows) > 0
    /\ \E k \in 1..Len(rows) : ~(DOMAIN rows[k] \subseteq DOMAIN rows[1])

save_comments_to_csv(rows) ==
    IF Len(rows) = 0 THEN [file |-> FALSE, headers |-> {}, rows |-> <<>>]
    ELSE [file |-> TRUE, headers |-> DOMAIN rows[1], rows |-> rows]

\* Every batch would be written under the number of the batch before it.
S3KeyZeroBased(video_id, batch_number) ==
    <<"classified", video_id, "classified_comments", video_id, "batch",
      batch_number - 1>>

\* upload_comments_batch_to_s3: the key it writes and the URI it returns.
S3Key(video_id, batch_number) ==
    <<"classified", video_id, "classified_comments", video_id, "batch", batch_number>>

S3Uri(video_id, batch_number) == <<"s3", S3_BUCKET>> \o S3Key(video_id, batch_number)

\* int(event.get("batch_size", 20)): the value, or the exception raised.
ParseBatchSize(raw) ==
    CASE raw.kind = "absent" -> [exc |-> "", val |-> DEFAULT_BATCH_SIZE]
      [] raw.kind = "int" -> [exc |-> "", val |-> raw.val]
      [] raw.kind = "text" -> [exc |-> "ValueError", val |-> 0]
      [] OTHER -> [exc |-> "TypeError", val |-> 0]

----------------------------------------------------------------------------
(* State *)

VARIABLES
    event,          \* the event lambda_handler was invoked with
    pc,             \* the statement the invocation is at
    input,          \* the rows fetch_comments_from_s3 returned
    comments,       \* the list classify_and_upload_comments works on
    batch_size,     \* batch_size
    total_batches,  \* total_batches
    i,              \* the loop's index i
    batch_num,      \* batch_num
    batch_idx,      \* batch_comments, as positions in comments
    prompt,         \* prompt, the lines after the template
    attempt,        \* attempts call_openai_api has made in this invocation
    attempt_log,    \* how each of them ended: "raised" or "returned"
    last_exc,       \* the exception of the last failed attempt, "" for none
    slept,          \* the waits of the retry policy in this invocation
    classified,     \* classified, the parsed result of the service
    exc,            \* the exception raised in the try block, "" for none
    s3_uris,        \* s3_uris
    sink,           \* the calls of upload_comments_batch_to_s3, in order
    batch_log,      \* for every batch taken: its slice and how far it got
    response,       \* what lambda_handler returned
    fetched,        \* how fetch_comments_from_s3 ended, "none" before its call
    metered,        \* whether the attempts of this run are counted
    attempts_made,  \* the attempts of call_openai_api so far, if counted
    escaped         \* the exception that left lambda_handler, "" for none

\* The state of one invocation of call_openai_api under its retry policy.
callVars == <<attempt, attempt_log, last_exc, slept>>

vars == <<event, pc, fetched, metered, attempts_made, input, comments, batch_size, total_batches, i, batch_num,
          batch_idx, prompt, callVars, classified, exc, s3_uris, sink,
          batch_log, response, escaped>>

jobVars == <<input, comments, batch_size, total_batches, i, batch_num,
             batch_idx, prompt, callVars, classified, exc, s3_uris,
             sink, batch_log>>

\* The messages of lambda_handler's responses (lines 321, 324, 336, 348, 360).
MSG_MISSING == "Missing parameter: 'video_id'"
MSG_INVALID == "Invalid batch_size parameter."
MSG_NOT_FOUND == "Video with ID 'v1' not found or no comments available."
MSG_FAILED == "Failed to classify and upload comments."
MSG_SUCCESS == "classification and upload completed"

NoResponse == [statusCode |-> 0, message |-> "", s3_uris |-> <<>>]

Init ==
    /\ event \in Events
    /\ pc = "lambda_handler"
    /\ fetched = "none"
    /\ metered = FALSE
    /\ attempts_made = 0
    /\ input = <<>>
    /\ comments = <<>>
    /\ batch_size = 0
    /\ total_batches = 0
    /\ i = 0
    /\ batch_num = 0
    /\ batch_idx = <<>>
    /\ prompt = <<>>
    /\ attempt = 0
    /\ attempt_log = <<>>
    /\ last_exc = ""
    /\ slept = <<>>
    /\ classified = NotADict
    /\ exc = ""
    /\ s3_uris = <<>>
    /\ sink = <<>>
    /\ batch_log = <<>>
    /\ response = NoResponse
    /\ escaped = ""

\* The entry of the current batch in batch_log, moved to a new state.
Logged(state, svc) ==
    [batch_log EXCEPT ![Len(batch_log)] = [@ EXCEPT !.state = state, !.svc = svc]]

\* The index would stay where it is.
EndIterationNoAdvance ==
    /\ i' = i
    /\ attempt' = 0
    /\ attempt_log' = <<>>
    /\ last_exc' = ""
    /\ slept' = <<>>
    /\ classified' = NotADict
    /\ exc' = ""
    /\ pc' = "for"

\* The end of an iteration of the loop: the index advances; the locals of
\* the iteration are dead (each is assigned again before it is read).
EndIteration ==
    /\ i' = i + batch_size
    /\ attempt' = 0
    /\ attempt_log' = <<>>
    /\ last_exc' = ""
    /\ slept' = <<>>
    /\ classified' = NotADict
    /\ exc' = ""
    /\ pc' = "for"

\* One more attempt of call_openai_api, counted in a run that counts them.
CountAttempt ==
    attempts_made' = IF metered THEN attempts_made + 1 ELSE attempts_made

Return(status, message, uris) ==
    /\ response' = [statusCode |-> status, message |-> message, s3_uris |-> uris]
    /\ escaped' = ""
    /\ pc' = "done"

Raise(e) ==
    /\ response' = NoResponse
    /\ escaped' = e
    /\ pc' = "done"

----------------------------------------------------------------------------
(* Actions *)

\* fetch_comments_from_s3: the rows, [] on NoSuchKey and on any other error.
fetch_comments_from_s3(outcome) ==
    IF outcome.kind = "ok" THEN outcome.rows ELSE <<>>

\* The test of the handler of KeyError would never succeed.
MissingParameterNever(ev) == FALSE

\* lambda_handler, lines 316, 319: event["video_id"] raises KeyError.
MissingParameter(ev) == ~ev.has_video_id

\* The test of line 330 would never succeed.
NoCommentsNever(rows) == FALSE

\* lambda_handler, line 330: not comments.
NoComments(rows) == Len(rows) = 0

\* lambda_handler, lines 313-339: the parameters, then the fetch.
LambdaStart ==
    /\ pc = "lambda_handler"
    /\ LET parsed == ParseBatchSize(event.batch_size) IN
       IF MissingParameter(event)
       THEN Return(400, MSG_MISSING, <<>>) /\ UNCHANGED <<fetched, jobVars>>
       ELSE IF parsed.exc = "ValueError"
       THEN Return(400, MSG_INVALID, <<>>) /\ UNCHANGED <<fetched, jobVars>>
       ELSE IF parsed.exc # ""
       THEN Raise(parsed.exc) /\ UNCHANGED <<fetched, jobVars>>
       ELSE \E outcome \in FetchOutcomes :
              LET rows == fetch_comments_from_s3(outcome) IN
              /\ fetched' = outcome.kind
              /\ IF NoComments(rows)
                 THEN Return(404, MSG_NOT_FOUND, <<>>) /\ UNCHANGED jobVars
                 ELSE /\ input' = rows
                      /\ comments' = rows
                      /\ batch_size' = parsed.val
                      /\ pc' = "classify_and_upload_comments"
                      /\ UNCHANGED <<total_batches, i, batch_num, batch_idx,
                                     prompt, callVars, classified, exc,
                                     s3_uris, sink, batch_log, response, escaped>>
    /\ UNCHANGED <<event, metered, attempts_made>>

\* classify_and_upload_comments, lines 210-214: s3_uris, total_batches and
\* the range; a batch_size of 0 raises in the division.
ClassifyEntry ==
    /\ pc = "classify_and_upload_comments"
    /\ IF batch_size = 0
       THEN /\ Raise("ZeroDivisionError")
            /\ UNCHANGED <<total_batches, i, batch_num, s3_uris>>
       ELSE /\ s3_uris' = <<>>
            /\ total_batches' = TotalBatches(Len(comments), batch_size)
            /\ i' = 0
            /\ batch_num' = 0
            /\ pc' = "for"
            /\ UNCHANGED <<response, escaped>>
    /\ UNCHANGED <<event, fetched, metered, attempts_made, input, comments, batch_size, batch_idx, prompt,
                   callVars, classified, exc, sink, batch_log>>

\* Lines 214-223: the next batch and its prompt.
NextBatch ==
    /\ pc = "for"
    /\ RangeHasNext(i, Len(comments), batch_size)
    /\ LET idx == Slice(Len(comments), i, i + batch_size) IN
       /\ batch_num' = batch_num + 1
       /\ batch_idx' = idx
       /\ prompt' = BuildPrompt(comments, idx)
       /\ batch_log' = Append(batch_log,
              [num |-> batch_num + 1, idx |-> idx,
               taken |-> BatchOf(comments, idx),
               state |-> "REQUEST_BUILT", svc |-> "pending"])
    /\ attempt' = 0
    /\ attempt_log' = <<>>
    /\ last_exc' = ""
    /\ slept' = <<>>
    /\ exc' = ""
    /\ pc' = "call_openai_api"
    /\ UNCHANGED <<event, fetched, metered, attempts_made, input, comments, batch_size, total_batches, i,
                   classified, s3_uris, sink, response, escaped>>

\* Lines 280-281: the range is exhausted, s3_uris is returned.
LoopExit ==
    /\ pc = "for"
    /\ ~RangeHasNext(i, Len(comments), batch_size)
    /\ pc' = "returned"
    /\ UNCHANGED <<event, fetched, metered, attempts_made, input, comments, batch_size, total_batches, i,
                   batch_num, batch_idx, prompt, callVars, classified,
                   exc, s3_uris, sink, batch_log, response, escaped>>

\* The decorator would re-raise the exception of the last attempt.
Reraised(last) == last

\* Lines 94-100: retry() is given no reraise, so that when the policy stops
\* tenacity raises RetryError, which holds the last attempt.
RaisedAfterRetries(last) == "RetryError"

\* One attempt of call_openai_api (lines 101-123) under the retry policy
\* (lines 94-100): the parsed result, or an exception, which is retried
\* after a wait unless the policy stops, and then RetryError is raised.
AttemptReturns(results) ==
    /\ pc = "call_openai_api"
    /\ attempt' = attempt + 1
    /\ CountAttempt
    /\ attempt_log' = Append(attempt_log, "returned")
    /\ last_exc' = ""
    /\ \E r \in results : classified' = r
    /\ batch_log' = Logged("SERVICE_CALLED", "ok")
    /\ pc' = "reconcile"
    /\ UNCHANGED <<event, fetched, metered, input, comments, batch_size, total_batches, i,
                   batch_num, batch_idx, prompt, slept, exc, s3_uris, sink,
                   response, escaped>>

\* The service's results over the whole bounded range of responses.
AttemptSucceeds ==
    AttemptReturns(Responses([k \in 1..Len(prompt) |-> prompt[k].comment_id]))

AttemptFails ==
    /\ pc = "call_openai_api"
    /\ attempt' = attempt + 1
    /\ CountAttempt
    /\ attempt_log' = Append(attempt_log, "raised")
    /\ \E e \in AttemptFailures : last_exc' = e
    /\ IF ~RetryIf(last_exc') \/ RetryStops(attempt + 1)
       THEN /\ exc' = IF RetryIf(last_exc') THEN RaisedAfterRetries(last_exc')
                       ELSE last_exc'
            /\ batch_log' = Logged("FAILED", "raised")
            /\ slept' = slept
            /\ pc' = "except"
       ELSE /\ slept' = Append(slept, RetryWait(attempt + 1))
            /\ pc' = "call_openai_api"
            /\ UNCHANGED <<exc, batch_log>>
    /\ UNCHANGED <<event, fetched, metered, input, comments, batch_size, total_batches, i,
                   batch_num, batch_idx, prompt, classified, s3_uris, sink,
                   response, escaped>>

\* Lines 229-251: the dict of the service's entries, then every comment of
\* the batch; an exception of the comprehension goes to the handler.
Reconcile ==
    /\ pc = "reconcile"
    /\ LET e == ClassificationDictRaises(classified) IN
       IF e # ""
       THEN /\ exc' = e
            /\ batch_log' = Logged("FAILED", "ok")
            /\ pc' = "except"
            /\ UNCHANGED comments
       ELSE /\ comments' = ReconcileBatch(comments, batch_idx,
                                          ClassificationDict(classified))
            /\ batch_log' = Logged("RECONCILED", "ok")
            /\ pc' = "emit"
            /\ UNCHANGED exc
    /\ UNCHANGED <<event, fetched, metered, attempts_made, input, batch_size, total_batches, i, batch_num,
                   batch_idx, prompt, callVars, classified, s3_uris,
                   sink, response, escaped>>

\* The return value would be appended whether or not it is a URI.
AppendUriAlways(uris, s3_uri) == Append(uris, s3_uri)

\* The URI would go to the front of the list.
PrependUri(uris, s3_uri) == IF s3_uri # <<>> THEN <<s3_uri>> \o uris ELSE uris

\* Lines 263-267: a returned URI is appended, "" is only logged.
AppendUri(uris, s3_uri) == IF s3_uri # <<>> THEN Append(uris, s3_uri) ELSE uris

\* upload_comments_batch_to_s3, lines 71-91: the URI of the object, or ""
\* (here <<>>) when put_object raises.
upload_comments_batch_to_s3(stored, video_id, batch_number) ==
    IF stored THEN S3Uri(video_id, batch_number) ELSE <<>>

\* Lines 256-267: the CSV file, then the upload; upload_comments_batch_to_s3
\* returns the URI, or "" when put_object raises.
Emit ==
    /\ pc = "emit"
    /\ LET rows == BatchOf(comments, batch_idx) IN
       IF SaveCsvRaises(rows)
       THEN /\ exc' = "ValueError"
            /\ batch_log' = Logged("FAILED", "ok")
            /\ pc' = "except"
            /\ UNCHANGED <<s3_uris, sink, i, callVars, classified>>
       ELSE LET csv_file == save_comments_to_csv(rows) IN
            IF ~csv_file.file
            THEN /\ batch_log' = Logged("EMIT_FAILED", "ok")
                 /\ EndIteration
                 /\ UNCHANGED <<s3_uris, sink>>
            ELSE \E stored \in BOOLEAN :
                 LET s3_uri == upload_comments_batch_to_s3(stored, VIDEO_ID, batch_num) IN
                 /\ sink' = Append(sink, [key |-> S3Key(VIDEO_ID, batch_num),
                                          body |-> csv_file, stored |-> stored])
                 /\ s3_uris' = AppendUri(s3_uris, s3_uri)
                 /\ batch_log' = Logged(IF s3_uri # <<>> THEN "EMITTED"
                                        ELSE "EMIT_FAILED", "ok")
                 /\ EndIteration
    /\ UNCHANGED <<event, fetched, metered, attempts_made, input, comments, batch_size, total_batches,
                   batch_num, batch_idx, prompt, response, escaped>>

\* The handler resets every comment of the list.
ExceptHandlerWholeList ==
    /\ pc = "except"
    /\ comments' = [p \in 1..Len(comments) |-> DefaultComment(comments[p])]
    /\ batch_log' = Logged("DEFAULTED", batch_log[Len(batch_log)].svc)
    /\ EndIteration
    /\ UNCHANGED <<event, fetched, metered, attempts_made, input, batch_size, total_batches, batch_num,
                   batch_idx, prompt, s3_uris, sink, response, escaped>>

\* The handler ends the loop.
ExceptHandlerAbort ==
    /\ pc = "except"
    /\ comments' = DefaultBatch(comments, batch_idx)
    /\ batch_log' = Logged("DEFAULTED", batch_log[Len(batch_log)].svc)
    /\ i' = Max(Len(comments), i + batch_size)
    /\ attempt' = 0
    /\ attempt_log' = <<>>
    /\ last_exc' = ""
    /\ slept' = <<>>
    /\ classified' = NotADict
    /\ exc' = ""
    /\ pc' = "for"
    /\ UNCHANGED <<event, fetched, metered, attempts_made, input, batch_size, total_batches, batch_num,
                   batch_idx, prompt, s3_uris, sink, response, escaped>>

\* The handler would upload the batch with its defaults.
ExceptHandlerEmitsDefaults ==
    /\ pc = "except"
    /\ comments' = DefaultBatch(comments, batch_idx)
    /\ sink' = Append(sink, [key |-> S3Key(VIDEO_ID, batch_num),
                             body |-> save_comments_to_csv(
                                         BatchOf(DefaultBatch(comments, batch_idx),
                                                 batch_idx)),
                             stored |-> TRUE])
    /\ s3_uris' = Append(s3_uris, S3Uri(VIDEO_ID, batch_num))
    /\ batch_log' = Logged("EMITTED", batch_log[Len(batch_log)].svc)
    /\ EndIteration
    /\ UNCHANGED <<event, fetched, metered, attempts_made, input, batch_size, total_batches, batch_num,
                   batch_idx, prompt, response, escaped>>

\* Lines 269-278: the handler of the try block.
ExceptHandler ==
    /\ pc = "except"
    /\ comments' = DefaultBatch(comments, batch_idx)
    /\ batch_log' = Logged("DEFAULTED", batch_log[Len(batch_log)].svc)
    /\ EndIteration
    /\ UNCHANGED <<event, fetched, metered, attempts_made, input, batch_size, total_batches, batch_num,
                   batch_idx, prompt, s3_uris, sink, response, escaped>>

\* lambda_handler reports success whatever s3_uris holds.
LambdaFinishAlwaysOk ==
    /\ pc = "returned"
    /\ Return(200, MSG_SUCCESS, s3_uris)
    /\ UNCHANGED <<event, fetched, metered, attempts_made, input, comments, batch_size, total_batches, i,
                   batch_num, batch_idx, prompt, callVars, classified, exc,
                   s3_uris, sink, batch_log>>

\* lambda_handler, lines 344-368: 500 on an empty s3_uris, else 200.
LambdaFinish ==
    /\ pc = "returned"
    /\ IF s3_uris = <<>>
       THEN Return(500, MSG_FAILED, <<>>)
       ELSE Return(200, MSG_SUCCESS, s3_uris)
    /\ UNCHANGED <<event, fetched, metered, attempts_made, input, comments, batch_size, total_batches, i,
                   batch_num, batch_idx, prompt, callVars, classified,
                   exc, s3_uris, sink, batch_log>>

Next ==
    \/ LambdaStart
    \/ ClassifyEntry
    \/ NextBatch
    \/ LoopExit
    \/ AttemptSucceeds
    \/ AttemptFails
    \/ Reconcile
    \/ Emit
    \/ ExceptHandler
    \/ LambdaFinish

Spec == Init /\ [][Next]_vars

\* classify_and_upload_comments alone, called with any list and batch_size.
FnInit ==
    /\ event = [has_video_id |-> TRUE, batch_size |-> [kind |-> "absent", val |-> 0]]
    /\ pc = "classify_and_upload_comments"
    /\ fetched = "none"
    /\ metered = FALSE
    /\ attempts_made = 0
    /\ input \in Files
    /\ comments = input
    /\ batch_size \in (0 - 1)..MaxB
    /\ total_batches = 0
    /\ i = 0
    /\ batch_num = 0
    /\ batch_idx = <<>>
    /\ prompt = <<>>
    /\ attempt = 0
    /\ attempt_log = <<>>
    /\ last_exc = ""
    /\ slept = <<>>
    /\ classified = NotADict
    /\ exc = ""
    /\ s3_uris = <<>>
    /\ sink = <<>>
    /\ batch_log = <<>>
    /\ response = NoResponse
    /\ escaped = ""

FnNext ==
    \/ ClassifyEntry
    \/ NextBatch
    \/ LoopExit
    \/ AttemptSucceeds
    \/ AttemptFails
    \/ Reconcile
    \/ Emit
    \/ ExceptHandler

FnSpec == FnInit /\ [][FnNext]_vars

\* lambda_handler after it fetched a file of 45 comments for an event that
\* carries no batch_size, up to its response.
ScenarioInit ==
    /\ event = [has_video_id |-> TRUE, batch_size |-> [kind |-> "absent", val |-> 0]]
    /\ pc = "classify_and_upload_comments"
    /\ fetched = "ok"
    /\ metered = FALSE
    /\ attempts_made = 0
    /\ input = [p \in 1..45 |-> Row(p, FALSE)]
    /\ comments = input
    /\ batch_size = ParseBatchSize(event.batch_size).val
    /\ total_batches = 0
    /\ i = 0
    /\ batch_num = 0
    /\ batch_idx = <<>>
    /\ prompt = <<>>
    /\ attempt = 0
    /\ attempt_log = <<>>
    /\ last_exc = ""
    /\ slept = <<>>
    /\ classified = NotADict
    /\ exc = ""
    /\ s3_uris = <<>>
    /\ sink = <<>>
    /\ batch_log = <<>>
    /\ response = NoResponse
    /\ escaped = ""

ScenarioAttemptSucceeds ==
    AttemptReturns(UniformResponses([k \in 1..Len(prompt) |-> prompt[k].comment_id]))

ScenarioNext ==
    \/ ClassifyEntry
    \/ NextBatch
    \/ LoopExit
    \/ ScenarioAttemptSucceeds
    \/ AttemptFails
    \/ Reconcile
    \/ Emit
    \/ ExceptHandler
    \/ LambdaFinish

ScenarioSpec == ScenarioInit /\ [][ScenarioNext]_vars

\* classify_and_upload_comments alone, in a run that counts the attempts of
\* call_openai_api; every step that is enabled is eventually taken, each
\* call of the service and of the sink returning or raising. The service
\* answers in one of two ways.
MeteredInit ==
    /\ event = [has_video_id |-> TRUE, batch_size |-> [kind |-> "absent", val |-> 0]]
    /\ pc = "classify_and_upload_comments"
    /\ fetched = "none"
    /\ metered = TRUE
    /\ attempts_made = 0
    /\ input \in Files
    /\ comments = input
    /\ batch_size \in (0 - 1)..MaxB
    /\ total_batches = 0
    /\ i = 0
    /\ batch_num = 0
    /\ batch_idx = <<>>
    /\ prompt = <<>>
    /\ attempt = 0
    /\ attempt_log = <<>>
    /\ last_exc = ""
    /\ slept = <<>>
    /\ classified = NotADict
    /\ exc = ""
    /\ s3_uris = <<>>
    /\ sink = <<>>
    /\ batch_log = <<>>
    /\ response = NoResponse
    /\ escaped = ""

MeteredAttemptSucceeds ==
    AttemptReturns(PlainResponses([k \in 1..Len(prompt) |-> prompt[k].comment_id]))

MeteredNext ==
    \/ ClassifyEntry
    \/ NextBatch
    \/ LoopExit
    \/ MeteredAttemptSucceeds
    \/ AttemptFails
    \/ Reconcile
    \/ Emit
    \/ ExceptHandler

MeteredSpec == MeteredInit /\ [][MeteredNext]_vars /\ WF_vars(MeteredNext)

----------------------------------------------------------------------------
(* classifyComments.py: classify_comments, the stage with a single output *)

\* Lines 207-209: the exception raised while the dict of the service's
\* entries is built from classified["comments"], "" when none is.
ClassifyCommentsDictRaises(result) ==
    IF ~result.isdict THEN "TypeError"
    ELSE IF "comments" \notin DOMAIN result.d THEN "KeyError"
    ELSE EntriesRaise(result.d["comments"], 1)

\* class_result[field] if class_result.get(field) in ENUM else ""
CheckedOrEmpty(class_result, field, enum) ==
    IF In(Get(class_result, field, NONE), enum) THEN class_result[field] ELSE ""

\* Lines 212-228: the four fields of one comment.
ClassifyCommentsFields(comment, classification_dict) ==
    LET class_result == Get(classification_dict, comment["comment_id"], EmptyDict)
        c1 == Put(comment, "sentiment",
                  CheckedOrEmpty(class_result, "sentiment", SENTIMENT_ENUM))
        c2 == Put(c1, "positive_status",
                  CheckedOrEmpty(class_result, "positive_status", POSITIVE_STATUS_ENUM))
        c3 == Put(c2, "comment_category",
                  CheckedOrEmpty(class_result, "comment_category", COMMENT_CATEGORY_ENUM))
    IN  Put(c3, "keywords", Get(class_result, "keywords", <<>>))

ClassifyCommentsBatch(cs, idx, classification_dict) ==
    [p \in 1..Len(cs) |->
        IF InBatch(idx, p) THEN ClassifyCommentsFields(cs[p], classification_dict)
        ELSE cs[p]]

\* classify_comments called with any list and batch_size: classification_prompt
\* holds the template (lines 106-118), kept here as the empty start of the
\* request.
ClassifyCommentsInit ==
    /\ event = [has_video_id |-> TRUE, batch_size |-> [kind |-> "absent", val |-> 0]]
    /\ pc = "classify_comments"
    /\ fetched = "none"
    /\ metered = FALSE
    /\ attempts_made = 0
    /\ input \in Files
    /\ comments = input
    /\ batch_size \in (0 - 1)..MaxB
    /\ total_batches = 0
    /\ i = 0
    /\ batch_num = 0
    /\ batch_idx = <<>>
    /\ prompt = <<>>
    /\ attempt = 0
    /\ attempt_log = <<>>
    /\ last_exc = ""
    /\ slept = <<>>
    /\ classified = NotADict
    /\ exc = ""
    /\ s3_uris = <<>>
    /\ sink = <<>>
    /\ batch_log = <<>>
    /\ response = NoResponse
    /\ escaped = ""

\* The end of an iteration of the loop of classify_comments.
ClassifyCommentsEndIteration ==
    /\ i' = i + batch_size
    /\ attempt' = 0
    /\ attempt_log' = <<>>
    /\ last_exc' = ""
    /\ slept' = <<>>
    /\ classified' = NotADict
    /\ exc' = ""
    /\ pc' = "classify_comments"

\* Line 179: range(0, len(comments), 0) raises ValueError.
ClassifyCommentsRangeRaises ==
    /\ pc = "classify_comments"
    /\ batch_size = 0
    /\ Raise("ValueError")
    /\ UNCHANGED <<event, fetched, metered, attempts_made, input, comments, batch_size, total_batches, i,
                   batch_num, batch_idx, prompt, callVars, classified, exc,
                   s3_uris, sink, batch_log>>

\* Lines 179-184: the next batch; its lines are added to
\* classification_prompt, which is assigned nowhere else.
ClassifyCommentsNextBatch ==
    /\ pc = "classify_comments"
    /\ batch_size # 0
    /\ RangeHasNext(i, Len(comments), batch_size)
    /\ LET idx == Slice(Len(comments), i, i + batch_size) IN
       /\ batch_idx' = idx
       /\ prompt' = prompt \o PromptLines(comments, idx, 1)
       /\ batch_log' = Append(batch_log,
              [num |-> Len(batch_log) + 1, idx |-> idx,
               taken |-> BatchOf(comments, idx),
               state |-> "REQUEST_BUILT", svc |-> "pending"])
    /\ attempt' = 0
    /\ attempt_log' = <<>>
    /\ last_exc' = ""
    /\ slept' = <<>>
    /\ exc' = ""
    /\ pc' = "classify_comments.call"
    /\ UNCHANGED <<event, fetched, metered, attempts_made, input, comments, batch_size, total_batches, i,
                   batch_num, classified, s3_uris, sink, response, escaped>>

\* Line 243: the range is exhausted, the list is returned.
ClassifyCommentsReturn ==
    /\ pc = "classify_comments"
    /\ batch_size # 0
    /\ ~RangeHasNext(i, Len(comments), batch_size)
    /\ pc' = "classify_comments.returned"
    /\ UNCHANGED <<event, fetched, metered, attempts_made, input, comments, batch_size, total_batches, i,
                   batch_num, batch_idx, prompt, callVars, classified, exc,
                   s3_uris, sink, batch_log, response, escaped>>

\* One attempt of call_openai_api (lines 77-94) under its retry policy
\* (lines 70-76), which is that of the other file.
ClassifyCommentsCallReturns ==
    /\ pc = "classify_comments.call"
    /\ attempt' = attempt + 1
    /\ CountAttempt
    /\ attempt_log' = Append(attempt_log, "returned")
    /\ last_exc' = ""
    /\ \E r \in Responses([k \in 1..Len(batch_idx) |->
                               comments[batch_idx[k]]["comment_id"]]) :
          classified' = r
    /\ batch_log' = Logged("SERVICE_CALLED", "ok")
    /\ pc' = "classify_comments.reconcile"
    /\ UNCHANGED <<event, fetched, metered, input, comments, batch_size, total_batches, i,
                   batch_num, batch_idx, prompt, slept, exc, s3_uris, sink,
                   response, escaped>>

ClassifyCommentsCallFails ==
    /\ pc = "classify_comments.call"
    /\ attempt' = attempt + 1
    /\ CountAttempt
    /\ attempt_log' = Append(attempt_log, "raised")
    /\ \E e \in AttemptFailures : last_exc' = e
    /\ IF ~RetryIf(last_exc') \/ RetryStops(attempt + 1)
       THEN /\ exc' = IF RetryIf(last_exc') THEN RaisedAfterRetries(last_exc')
                       ELSE last_exc'
            /\ batch_log' = Logged("FAILED", "raised")
            /\ slept' = slept
            /\ pc' = "classify_comments.except"
       ELSE /\ slept' = Append(slept, RetryWait(attempt + 1))
            /\ pc' = "classify_comments.call"
            /\ UNCHANGED <<exc, batch_log>>
    /\ UNCHANGED <<event, fetched, metered, input, comments, batch_size, total_batches, i,
                   batch_num, batch_idx, prompt, classified, s3_uris, sink,
                   response, escaped>>

\* Lines 207-228: the dict of the entries, then every comment of the batch.
ClassifyCommentsReconcile ==
    /\ pc = "classify_comments.reconcile"
    /\ LET e == ClassifyCommentsDictRaises(classified) IN
       IF e # ""
       THEN /\ exc' = e
            /\ batch_log' = Logged("FAILED", "ok")
            /\ pc' = "classify_comments.except"
            /\ UNCHANGED <<comments, i, callVars, classified>>
       ELSE /\ comments' = ClassifyCommentsBatch(comments, batch_idx,
                                                 ClassificationDict(classified))
            /\ batch_log' = Logged("RECONCILED", "ok")
            /\ ClassifyCommentsEndIteration
    /\ UNCHANGED <<event, fetched, metered, attempts_made, input, batch_size, total_batches, batch_num,
                   batch_idx, prompt, s3_uris, sink, response, escaped>>

\* Lines 230-242: the handler of the try block.
ClassifyCommentsExcept ==
    /\ pc = "classify_comments.except"
    /\ comments' = DefaultBatch(comments, batch_idx)
    /\ batch_log' = Logged("DEFAULTED", batch_log[Len(batch_log)].svc)
    /\ ClassifyCommentsEndIteration
    /\ UNCHANGED <<event, fetched, metered, attempts_made, input, batch_size, total_batches, batch_num,
                   batch_idx, prompt, s3_uris, sink, response, escaped>>

ClassifyCommentsNext ==
    \/ ClassifyCommentsRangeRaises
    \/ ClassifyCommentsNextBatch
    \/ ClassifyCommentsReturn
    \/ ClassifyCommentsCallReturns
    \/ ClassifyCommentsCallFails
    \/ ClassifyCommentsReconcile
    \/ ClassifyCommentsExcept

ClassifyCommentsSpec == ClassifyCommentsInit /\ [][ClassifyCommentsNext]_vars

----------------------------------------------------------------------------
(* Properties *)

\* classify_and_upload_comments has returned its list.
Returned ==
    \/ pc = "returned"
    \/ pc = "done" /\ escaped = "" /\ response.statusCode \in {200, 500}

\* ceil(n / B) for B >= 1, from its definition.
CeilDiv(n, B) ==
    CHOOSE k \in 0..n : k * B >= n /\ \A m \in 0..(k - 1) : m * B < n

RECURSIVE ConcatTaken(_, _)
ConcatTaken(log, k) ==
    IF k > Len(log) THEN <<>> ELSE log[k].taken \o ConcatTaken(log, k + 1)

RECURSIVE ConcatIdx(_, _)
ConcatIdx(log, k) ==
    IF k > Len(log) THEN <<>> ELSE log[k].idx \o ConcatIdx(log, k + 1)

Positions(idx) == {idx[k] : k \in 1..Len(idx)}

FieldOf(c, f) == Get(c, f, NONE)

SentimentValues == {"JOY", "ANGER", "SADNESS", "SURPRISE", "FEAR", "DISGUST"}
PositiveStatusValues == {"POSITIVE", "NEGATIVE", "NEUTRAL"}
CommentCategoryValues == {"REACTION", "FEEDBACK", "QUESTION", "SPAM", "INSULT"}

AllMembers(c) ==
    /\ FieldOf(c, "sentiment") \in SentimentValues
    /\ FieldOf(c, "positive_status") \in PositiveStatusValues
    /\ FieldOf(c, "comment_category") \in CommentCategoryValues

AllUnknown(c) ==
    /\ FieldOf(c, "sentiment") = "UNKNOWN"
    /\ FieldOf(c, "positive_status") = "UNKNOWN"
    /\ FieldOf(c, "comment_category") = "UNKNOWN"

HasDefaults(c) ==
    /\ AllUnknown(c)
    /\ "keywords" \in DOMAIN c
    /\ c["keywords"] = <<>>

ClassificationFields == {"sentiment", "positive_status", "comment_category", "keywords"}

\* C1: for batch_size >= 1, the batches the loop has taken, concatenated in
\* order, are a prefix of the input list, and no position is in two
\* batches; once the loop is over they are the whole input list, and the
\* number of batches is ceil(N / batch_size), which is also total_batches.
C1_PartitionComplete ==
    batch_size >= 1 =>
        /\ Len(ConcatTaken(batch_log, 1)) <= Len(input)
        /\ ConcatTaken(batch_log, 1)
              = SubSeq(input, 1, Min(Len(input), Len(ConcatTaken(batch_log, 1))))
        /\ \A k1, k2 \in 1..Len(batch_log) :
              k1 # k2 =>
                Positions(batch_log[k1].idx) \cap Positions(batch_log[k2].idx) = {}
        /\ Returned =>
              /\ ConcatTaken(batch_log, 1) = input
              /\ ConcatIdx(batch_log, 1) = [p \in 1..Len(input) |-> p]
              /\ Len(batch_log) = CeilDiv(Len(input), batch_size)
              /\ total_batches = CeilDiv(Len(input), batch_size)

C1_Witness ==
    /\ pc = "returned"
    /\ batch_size = 2
    /\ Len(input) = 3
    /\ Len(batch_log) = 2
    /\ Len(batch_log[2].idx) = 1

\* C2: for batch_size >= 1, every batch the loop takes is non-empty and has
\* at most batch_size comments, every batch before the last one has exactly
\* batch_size comments, and an empty list yields no batch.
C2_BatchSizes ==
    batch_size >= 1 =>
        /\ \A k \in 1..Len(batch_log) :
              /\ Len(batch_log[k].idx) >= 1
              /\ Len(batch_log[k].idx) <= batch_size
              /\ (k < Len(batch_log) \/ k * batch_size < Len(input))
                    => Len(batch_log[k].idx) = batch_size
        /\ Len(input) = 0 => batch_log = <<>>

C2_Witness ==
    /\ pc = "call_openai_api"
    /\ batch_size = 2
    /\ batch_num = 2
    /\ Len(batch_log[1].idx) = 2
    /\ Len(batch_idx) = 1

\* C3: for batch_size >= 1, once classify_and_upload_comments has returned,
\* the list has the length and order of the input, every comment keeps the
\* input's fields with their values, and every comment carries the four
\* classification fields.
C3_AllCommentsClassified ==
    (Returned /\ batch_size >= 1) =>
        /\ Len(comments) = Len(input)
        /\ \A p \in 1..Len(input) :
              /\ \A f \in DOMAIN input[p] :
                    f \in DOMAIN comments[p] /\ comments[p][f] = input[p][f]
              /\ DOMAIN comments[p] = DOMAIN input[p] \cup ClassificationFields

C3_Witness ==
    /\ pc = "returned"
    /\ \E k1, k2, k3 \in 1..Len(batch_log) :
          /\ batch_log[k1].state = "DEFAULTED" /\ batch_log[k1].svc = "raised"
          /\ batch_log[k2].state = "EMITTED"
          /\ batch_log[k3].state = "EMIT_FAILED"
    /\ \E p \in 1..Len(comments) : ~AllMembers(comments[p]) /\ ~AllUnknown(comments[p])

\* The rows handed to upload_comments_batch_to_s3 that carry comment_id id.
SinkRows(id) ==
    UNION {{<<j, k>> : k \in {m \in 1..Len(sink[j].body.rows) :
                                 sink[j].body.rows[m]["comment_id"] = id}} :
           j \in 1..Len(sink)}

\* C4: for batch_size >= 1, once classify_and_upload_comments has returned,
\* every input comment is in exactly one row handed to
\* upload_comments_batch_to_s3, a comment of a failed batch with the
\* "UNKNOWN" defaults.
C4_EveryCommentEmitted ==
    (Returned /\ batch_size >= 1) =>
        \A p \in 1..Len(input) :
            Cardinality(SinkRows(input[p]["comment_id"])) = 1

\* C5 as stated: once classify_and_upload_comments has returned, every
\* comment has its three categorical fields all in their enumerations or
\* all "UNKNOWN".
C5_NoPartialClassification ==
    Returned =>
        \A p \in 1..Len(comments) :
            AllMembers(comments[p]) \/ AllUnknown(comments[p])

\* The state the batch of position p ended in.
StateOf(p) ==
    LET k == CHOOSE k \in 1..Len(batch_log) : p \in Positions(batch_log[k].idx)
    IN  batch_log[k].state

\* C5, amended: for batch_size >= 1, once classify_and_upload_comments has
\* returned, a comment whose batch went through the except handler has all
\* three categorical fields "UNKNOWN"; a comment with a valid value in one
\* field and "UNKNOWN" in another is a comment of a batch that was
\* reconciled from a successful service call.
C5_PartialOnlyWhenReconciled ==
    (Returned /\ batch_size >= 1) =>
        \A p \in 1..Len(comments) :
            /\ StateOf(p) = "DEFAULTED" => AllUnknown(comments[p])
            /\ (~AllMembers(comments[p]) /\ ~AllUnknown(comments[p]))
                  => StateOf(p) \in {"EMITTED", "EMIT_FAILED"}

C5_Witness ==
    /\ pc = "returned"
    /\ \E p, q \in 1..Len(comments) :
          /\ FieldOf(comments[p], "sentiment") \in SentimentValues
          /\ FieldOf(comments[p], "comment_category") = "UNKNOWN"
          /\ StateOf(p) = "EMITTED"
          /\ StateOf(q) = "DEFAULTED"

\* C6: every comment of a batch that was reconciled or defaulted has its
\* sentiment in the six values or "UNKNOWN", its positive_status in the
\* three values or "UNKNOWN", and its comment_category in the five values
\* or "UNKNOWN".
C6_EnumConformance ==
    \A k \in 1..Len(batch_log) :
        batch_log[k].state \in {"RECONCILED", "EMITTED", "EMIT_FAILED", "DEFAULTED"}
        => \A p \in Positions(batch_log[k].idx) :
              /\ FieldOf(comments[p], "sentiment") \in SentimentValues \cup {"UNKNOWN"}
              /\ FieldOf(comments[p], "positive_status")
                    \in PositiveStatusValues \cup {"UNKNOWN"}
              /\ FieldOf(comments[p], "comment_category")
                    \in CommentCategoryValues \cup {"UNKNOWN"}

\* The service sent, for a comment of the batch, a sentiment outside the
\* enumeration, and the comment was given "UNKNOWN".
C6_Witness ==
    /\ pc = "emit"
    /\ \E j \in 1..Len(Get(classified.d, "comments", <<>>)) :
          LET e == classified.d["comments"][j].d IN
          /\ "sentiment" \in DOMAIN e
          /\ e["sentiment"] \notin SentimentValues
          /\ \E p \in Positions(batch_idx) :
                /\ comments[p]["comment_id"] = e["comment_id"]
                /\ comments[p]["sentiment"] = "UNKNOWN"

C7_AfterServiceFailure ==
    \A k \in 1..Len(batch_log) :
        (batch_log[k].svc = "raised" /\ batch_log[k].state = "DEFAULTED")
        => \A p \in Positions(batch_log[k].idx) : HasDefaults(comments[p])

C7_HandlerStep ==
    (pc = "except" /\ exc = "RetryError" /\ pc' = "for") =>
        \A p \in 1..Len(comments) :
            IF p \in Positions(batch_idx)
            THEN HasDefaults(comments'[p])
            ELSE comments'[p] = comments[p]

\* C7: when call_openai_api raises for a batch after its retries, the
\* handler leaves every comment of the batch with "UNKNOWN" in the three
\* categorical fields and empty keywords, and changes no comment outside
\* the batch; the comments of the batch keep these values from then on.
C7_ServiceFailureDefaults == []C7_AfterServiceFailure /\ [][C7_HandlerStep]_vars

C7_Witness ==
    /\ Len(batch_log) >= 2
    /\ batch_log[1].state = "EMITTED"
    /\ batch_log[2].svc = "raised"
    /\ batch_log[2].state = "DEFAULTED"
    /\ AllMembers(comments[1])
    /\ HasDefaults(comments[batch_log[2].idx[1]])

Terminal == {"EMITTED", "EMIT_FAILED", "DEFAULTED"}

C8_AfterReturn ==
    (Returned /\ batch_size >= 1) =>
        /\ escaped = ""
        /\ Len(batch_log) = CeilDiv(Len(input), batch_size)
        /\ \A k \in 1..Len(batch_log) :
              /\ batch_log[k].svc # "pending"
              /\ batch_log[k].state \in Terminal

C8_BatchStep ==
    /\ (pc = "for" /\ pc' = "call_openai_api") =>
          /\ prompt' = BuildPrompt(input, batch_idx')
          /\ batch_idx' = [k \in 1..Len(batch_idx') |-> batch_num * batch_size + k]
    /\ (pc = "reconcile" /\ pc' = "emit") =>
          \A p \in Positions(batch_idx) :
              comments'[p] = ReconcileComment(input[p], ClassificationDict(classified))
    /\ (pc = "emit" /\ pc' = "for") =>
          /\ Len(sink') = Len(sink) + 1
          /\ sink'[Len(sink')].body.rows = BatchOf(comments, batch_idx)
          /\ sink'[Len(sink')].key = S3Key(VIDEO_ID, Len(batch_log))

\* C8: for batch_size >= 1, no exception leaves classify_and_upload_comments
\* and, whatever batches failed, the service is called for every one of the
\* ceil(N / batch_size) batches and every batch ends emitted, not stored or
\* defaulted; the request, the reconciled values and the write of a batch
\* are those of its own slice of the input and of its own service result,
\* whatever became of the batches before it.
C8_FailureDoesNotAbort == []C8_AfterReturn /\ [][C8_BatchStep]_vars

C8_Witness ==
    /\ pc = "returned"
    /\ Len(batch_log) >= 3
    /\ batch_log[1].svc = "raised"
    /\ batch_log[2].state = "EMITTED"
    /\ AllMembers(comments[batch_log[2].idx[1]])
    /\ batch_log[3].state = "EMITTED"

AllRaised(log) == \A j \in 1..Len(log) : log[j] = "raised"

\* C9: an invocation of call_openai_api makes at most 3 attempts; an
\* attempt follows only failed attempts; it returns at the first attempt
\* that succeeds; it raises only after exactly 3 failed attempts.
C9_RetryBound ==
    /\ attempt <= 3
    /\ Len(attempt_log) = attempt
    /\ pc = "call_openai_api" => (attempt < 3 /\ AllRaised(attempt_log))
    /\ \A j \in 1..Len(attempt_log) :
          attempt_log[j] = "returned" =>
              /\ j = Len(attempt_log)
              /\ AllRaised(SubSeq(attempt_log, 1, j - 1))
    /\ pc = "reconcile" => attempt_log[Len(attempt_log)] = "returned"
    /\ exc = "RetryError" => (attempt = 3 /\ AllRaised(attempt_log))

C9_Witness ==
    /\ pc = "reconcile"
    /\ attempt_log = <<"raised", "raised", "returned">>
    /\ classified.isdict

\* The references of the writes the sink stored, in order.
RECURSIVE StoredUris(_, _)
StoredUris(log, j) ==
    IF j > Len(log) THEN <<>>
    ELSE (IF log[j].stored THEN <<<<"s3", S3_BUCKET>> \o log[j].key>> ELSE <<>>)
         \o StoredUris(log, j + 1)

\* C10: lambda_handler returns 200 exactly when classify_and_upload_comments
\* ran and the sink stored at least one batch, and then with the references
\* of the stored batches, none of them empty; when
\* classify_and_upload_comments returned and no batch was stored it
\* returns 500.
C10_SuccessIffReference ==
    pc = "done" =>
        /\ response.statusCode = 200 <=> (\E j \in 1..Len(sink) : sink[j].stored)
        /\ response.statusCode = 200 =>
              /\ response.s3_uris # <<>>
              /\ response.s3_uris = StoredUris(sink, 1)
              /\ \A j \in 1..Len(response.s3_uris) : response.s3_uris[j] # <<>>
        /\ (escaped = "" /\ batch_size # 0 /\ Len(input) > 0
              /\ ~(\E j \in 1..Len(sink) : sink[j].stored))
              => response.statusCode = 500

C10_Witness ==
    /\ pc = "done"
    /\ response.statusCode = 200
    /\ Len(response.s3_uris) = 1
    /\ Len(sink) = 2
    /\ Len(batch_log) = 3

\* The batch number at the end of a key or of a URI, 0 for "".
BatchNumberOf(name) == IF Len(name) = 0 THEN 0 ELSE name[Len(name)]

\* The calls of upload_comments_batch_to_s3 for batch k.
WritesOf(k) == {j \in 1..Len(sink) : BatchNumberOf(sink[j].key) = k}

\* C11: when the service call of a batch succeeded and its upload returned
\* no URI, s3_uris holds no reference of that batch and no empty reference,
\* no exception has left the function, and once the function has returned
\* every later batch of the partition was taken, had its service call made
\* and its four fields set, and was handed to the sink unless its own
\* service call or CSV raised.
C11_SinkFailureIsolated ==
    \A j \in 1..Len(sink) :
        ~sink[j].stored =>
            LET k == BatchNumberOf(sink[j].key) IN
            /\ k \in 1..Len(batch_log)
            /\ batch_log[k].svc = "ok"
            /\ batch_log[k].state = "EMIT_FAILED"
            /\ \A u \in 1..Len(s3_uris) :
                  s3_uris[u] # <<>> /\ BatchNumberOf(s3_uris[u]) # k
            /\ escaped = ""
            /\ Returned =>
                  \A k2 \in (k + 1)..CeilDiv(Len(input), batch_size) :
                      /\ k2 <= Len(batch_log)
                      /\ batch_log[k2].svc # "pending"
                      /\ batch_log[k2].state \in {"EMITTED", "EMIT_FAILED", "DEFAULTED"}
                      /\ \A p \in Positions(batch_log[k2].idx) :
                            ClassificationFields \subseteq DOMAIN comments[p]
                      /\ batch_log[k2].state # "DEFAULTED" => WritesOf(k2) # {}

C11_Witness ==
    /\ pc = "returned"
    /\ Len(batch_log) = 3
    /\ batch_log[1].state = "EMIT_FAILED"
    /\ batch_log[2].state = "EMITTED"
    /\ batch_log[3].state = "EMIT_FAILED"
    /\ Len(sink) = 3
    /\ s3_uris = <<S3Uri(VIDEO_ID, 2)>>

\* C12: the batch numbers of the references in s3_uris are strictly
\* increasing along the list, so that no batch has two references, and
\* each reference is that of a batch the loop has taken.
C12_ReferencesOrdered ==
    /\ \A u \in 1..Len(s3_uris) :
          /\ BatchNumberOf(s3_uris[u]) \in 1..Len(batch_log)
          /\ s3_uris[u] = <<"s3", S3_BUCKET, "classified", VIDEO_ID,
                            "classified_comments", VIDEO_ID, "batch",
                            BatchNumberOf(s3_uris[u])>>
    /\ \A u1, u2 \in 1..Len(s3_uris) :
          u1 < u2 => BatchNumberOf(s3_uris[u1]) < BatchNumberOf(s3_uris[u2])

C12_Witness ==
    /\ pc = "returned"
    /\ Len(batch_log) = 3
    /\ batch_log[2].state = "DEFAULTED"
    /\ Len(s3_uris) = 2
    /\ BatchNumberOf(s3_uris[1]) = 1
    /\ BatchNumberOf(s3_uris[2]) = 3

C14_CommentIdPreserved ==
    /\ Len(comments) = Len(input)
    /\ \A p \in 1..Len(comments) :
          FieldOf(comments[p], "comment_id") = input[p].comment_id
    /\ \A j \in 1..Len(sink) :
          \A k \in 1..Len(sink[j].body.rows) :
              \E p \in 1..Len(input) :
                  /\ FieldOf(sink[j].body.rows[k], "comment_id") = input[p].comment_id
                  /\ FieldOf(sink[j].body.rows[k], "text_display") = input[p].text_display

C14_Witness ==
    /\ pc = "returned"
    /\ Len(comments) = 3
    /\ Len(batch_log) = 3
    /\ StateOf(1) = "EMITTED"
    /\ AllUnknown(comments[1])
    /\ StateOf(2) = "EMITTED"
    /\ AllMembers(comments[2])
    /\ StateOf(3) = "DEFAULTED"
    /\ \A p \in 1..3 : comments[p]["comment_id"] = <<"c", p>>

\* C15: when fetch_comments_from_s3 yields no comments, because the object
\* is missing, because the fetch raised, or because the file has no row,
\* lambda_handler returns 404 with a message and no list; no batch was
\* taken, call_openai_api was not attempted and nothing was handed to the
\* sink. A 404 is returned in no other case.
C15_NoCommentsNotFound ==
    /\ (pc = "done" /\ fetched # "none" /\ Len(input) = 0) =>
          /\ escaped = ""
          /\ response.statusCode = 404
          /\ response.message = MSG_NOT_FOUND
          /\ response.s3_uris = <<>>
          /\ batch_log = <<>>
          /\ attempt = 0
          /\ attempt_log = <<>>
          /\ sink = <<>>
          /\ s3_uris = <<>>
    /\ fetched \in {"NoSuchKey", "error"} => (pc = "done" /\ Len(input) = 0)
    /\ response.statusCode = 404 => (fetched # "none" /\ Len(input) = 0)

C15_Witness ==
    /\ pc = "done"
    /\ fetched = "error"
    /\ response.statusCode = 404
    /\ event.batch_size.kind = "int"
    /\ event.batch_size.val = 0

\* C16: for an event without video_id lambda_handler returns 400 with the
\* message of the missing parameter, whatever batch_size is; the input was
\* not fetched, no batch was taken, call_openai_api was not attempted and
\* nothing was handed to the sink.
C16_MissingVideoId ==
    ~event.has_video_id =>
        /\ fetched = "none"
        /\ input = <<>>
        /\ batch_log = <<>>
        /\ attempt = 0
        /\ attempt_log = <<>>
        /\ sink = <<>>
        /\ s3_uris = <<>>
        /\ pc \in {"lambda_handler", "done"}
        /\ pc = "done" =>
              /\ escaped = ""
              /\ response.statusCode = 400
              /\ response.message = MSG_MISSING
              /\ response.s3_uris = <<>>

C16_Witness ==
    /\ pc = "done"
    /\ ~event.has_video_id
    /\ event.batch_size.kind = "null"
    /\ response.statusCode = 400

\* C17 as stated: for every event that contains video_id, whatever
\* batch_size is, lambda_handler ends with a response that has a status,
\* and no exception leaves it.
C17_AlwaysResponds ==
    (pc = "done" /\ event.has_video_id) =>
        /\ escaped = ""
        /\ response.statusCode \in {200, 400, 404, 500}

\* The call for the current batch ended in an exception after its retries.
ServiceFailed ==
    /\ pc = "except"
    /\ batch_log # <<>>
    /\ batch_log[Len(batch_log)].svc = "raised"

\* C18 as stated: the exception the caller catches after the retries is of
\* a kind that no failure of the other sort would have given.
C18_DistinctErrorKinds ==
    ServiceFailed =>
        \A other \in AttemptFailures \ {last_exc} : RaisedAfterRetries(other) # exc

\* C18, amended: whichever way the attempts failed, the caller catches a
\* RetryError, raised when the third attempt fails; the exception of the
\* last attempt, an error of the API or of json.loads, is what it wraps.
C18_SameErrorKind ==
    ServiceFailed =>
        /\ exc = "RetryError"
        /\ attempt = MAX_ATTEMPTS
        /\ attempt_log = <<"raised", "raised", "raised">>
        /\ last_exc \in AttemptFailures

C18_Witness ==
    /\ ServiceFailed
    /\ exc = "RetryError"
    /\ last_exc = "JSONDecodeError"
    /\ batch_num = 2

\* The service's result for a batch was an object with a list of entries
\* and the batch went on to the sink.
Succeeded(k) ==
    /\ batch_log[k].svc = "ok"
    /\ batch_log[k].state # "DEFAULTED"

\* C19: 45 comments with batch_size 20 give three batches of 20, 20 and 5
\* comments; at the upload of a batch its comments are those reconciled
\* from the service's result; when the call of batch 2 raised after its
\* retries, batches 1 and 3 succeeded and every write was stored, the
\* comments of batch 2 hold the defaults, those of batches 1 and 3 the four
\* fields that were uploaded, lambda_handler returns 200 and its list is
\* the URI of batch 1, then that of batch 3.
C19_Scenario ==
    /\ pc = "emit" =>
          \A k \in 1..Len(batch_idx) :
              comments[batch_idx[k]]
                 = ReconcileComment(input[batch_idx[k]], ClassificationDict(classified))
    /\ pc \in {"returned", "done"} =>
          /\ Len(batch_log) = 3
          /\ total_batches = 3
          /\ batch_log[1].idx = [k \in 1..20 |-> k]
          /\ batch_log[2].idx = [k \in 1..20 |-> 20 + k]
          /\ batch_log[3].idx = [k \in 1..5 |-> 40 + k]
    /\ (/\ pc = "done"
        /\ Succeeded(1)
        /\ batch_log[2].svc = "raised"
        /\ Succeeded(3)
        /\ \A j \in 1..Len(sink) : sink[j].stored) =>
          /\ \A p \in 21..40 : HasDefaults(comments[p])
          /\ \A p \in (1..20) \cup (41..45) :
                ClassificationFields \subseteq DOMAIN comments[p]
          /\ Len(sink) = 2
          /\ sink[1].body.rows = SubSeq(comments, 1, 20)
          /\ sink[2].body.rows = SubSeq(comments, 41, 45)
          /\ escaped = ""
          /\ response.statusCode = 200
          /\ response.s3_uris = <<S3Uri(VIDEO_ID, 1), S3Uri(VIDEO_ID, 3)>>

C19_Witness ==
    /\ pc = "done"
    /\ Len(batch_log) = 3
    /\ Succeeded(1)
    /\ batch_log[2].svc = "raised"
    /\ Succeeded(3)
    /\ \A j \in 1..Len(sink) : sink[j].stored
    /\ AllMembers(comments[1])
    /\ AllUnknown(comments[21])
    /\ AllMembers(comments[45])
    /\ response.statusCode = 200

\* The entry of the service's result that counts for comment_id id: the
\* last one of the list with that id, the empty dict if there is none.
EntryFor(id) ==
    LET es == Get(classified.d, "comments", <<>>)
        J == {j \in 1..Len(es) : Get(es[j].d, "comment_id", NONE) = id}
    IN  IF J = {} THEN EmptyDict
        ELSE es[CHOOSE j \in J : \A j2 \in J : j2 <= j].d

\* The value field f must get from entry e, given the values of its
\* enumeration.
Expected(e, f, values) ==
    IF f \in DOMAIN e /\ e[f] \in values THEN e[f] ELSE "UNKNOWN"

\* C20: when the service call of a batch succeeded and its comments were
\* reconciled, each of sentiment, positive_status and comment_category of
\* each comment is the value of the service's entry for its comment_id if
\* that value is in the field's own enumeration, and "UNKNOWN" otherwise,
\* whatever the other two fields got.
C20_FieldsIndependent ==
    pc = "emit" =>
        \A p \in Positions(batch_idx) :
            LET e == EntryFor(input[p].comment_id) IN
            /\ FieldOf(comments[p], "sentiment")
                  = Expected(e, "sentiment", SentimentValues)
            /\ FieldOf(comments[p], "positive_status")
                  = Expected(e, "positive_status", PositiveStatusValues)
            /\ FieldOf(comments[p], "comment_category")
                  = Expected(e, "comment_category", CommentCategoryValues)

C20_Witness ==
    /\ pc = "emit"
    /\ batch_num = 2
    /\ \E p \in Positions(batch_idx) :
          /\ comments[p]["sentiment"] = "ANGER"
          /\ comments[p]["positive_status"] = "UNKNOWN"
          /\ comments[p]["comment_category"] = "UNKNOWN"
          /\ "sentiment" \in DOMAIN EntryFor(input[p].comment_id)
          /\ "comment_category" \notin DOMAIN EntryFor(input[p].comment_id)

\* C21: when the service call of a batch succeeded and its comments were
\* reconciled, the keywords of each comment are those of the service's
\* entry for its comment_id, whatever the categorical values of the entry,
\* and the empty sequence when there is no entry or the entry has no
\* keywords; "UNKNOWN" is never put there, and a comment without an entry
\* has "UNKNOWN" in its three categorical fields.
C21_KeywordsDefault ==
    pc = "emit" =>
        \A p \in Positions(batch_idx) :
            LET e == EntryFor(input[p].comment_id) IN
            /\ "keywords" \in DOMAIN comments[p]
            /\ comments[p]["keywords"]
                  = (IF "keywords" \in DOMAIN e THEN e["keywords"] ELSE <<>>)
            /\ "keywords" \notin DOMAIN e =>
                  \A j \in 1..Len(comments[p]["keywords"]) :
                      comments[p]["keywords"][j] # "UNKNOWN"
            /\ DOMAIN e = {} => AllUnknown(comments[p])

C21_Witness ==
    /\ pc = "emit"
    /\ Len(batch_idx) = 2
    /\ DOMAIN EntryFor(input[batch_idx[1]].comment_id) = {}
    /\ comments[batch_idx[1]]["keywords"] = <<>>
    /\ AllUnknown(comments[batch_idx[1]])
    /\ "keywords" \in DOMAIN EntryFor(input[batch_idx[2]].comment_id)
    /\ AllUnknown(comments[batch_idx[2]])
    /\ comments[batch_idx[2]]["keywords"] # <<>>

\* C22 as stated: in every state, the keywords of a comment that has the
\* field are a sequence of at most 3 elements.
C22_AtMostThreeKeywords ==
    \A p \in 1..Len(comments) :
        "keywords" \in DOMAIN comments[p] => Len(comments[p]["keywords"]) <= 3

\* C23 as stated: the except handler is never entered with an exception of
\* the reconciliation step, that is, of the comprehension that builds the
\* dict of the service's entries.
C23_ReconcileNeverRaises ==
    pc = "except" => exc \notin {"AttributeError", "TypeError", "KeyError"}

C24_AfterParseError ==
    last_exc = "JSONDecodeError" =>
        /\ pc \in {"call_openai_api", "except"}
        /\ pc = "call_openai_api" =>
              /\ attempt \in 1..(MAX_ATTEMPTS - 1)
              /\ Len(slept) = attempt
        /\ pc = "except" =>
              /\ attempt = MAX_ATTEMPTS
              /\ exc = "RetryError"
              /\ batch_log[Len(batch_log)].svc = "raised"
              /\ WritesOf(batch_num) = {}
              /\ \A u \in 1..Len(s3_uris) : BatchNumberOf(s3_uris[u]) # batch_num

C24_HandlerStep ==
    (pc = "except" /\ last_exc = "JSONDecodeError") =>
        /\ \A p \in 1..Len(comments) :
              IF p \in Positions(batch_idx)
              THEN /\ HasDefaults(comments'[p])
                   /\ \A f \in DOMAIN input[p] : FieldOf(comments'[p], f) = input[p][f]
              ELSE comments'[p] = comments[p]
        /\ s3_uris' = s3_uris
        /\ sink' = sink
        /\ escaped' = ""
        /\ pc' = "for"
        /\ i' = i + batch_size
        /\ batch_log'[Len(batch_log')].state = "DEFAULTED"

\* C24: an attempt of call_openai_api whose body json.loads rejects is
\* retried after a wait like any failed attempt; when the third attempt
\* fails that way the caller gets the same RetryError, nothing of the batch
\* was written to the sink or added to s3_uris, and the next step gives
\* every comment of the batch the defaults, leaves the rest as it is and
\* goes back to the loop at the next batch.
C24_ParseErrorRecovered == []C24_AfterParseError /\ [][C24_HandlerStep]_vars

C24_Witness ==
    /\ pc = "except"
    /\ last_exc = "JSONDecodeError"
    /\ attempt = MAX_ATTEMPTS
    /\ slept = <<RetryWait(1), RetryWait(2)>>
    /\ exc = "RetryError"
    /\ batch_num = 2
    /\ batch_log[1].state = "EMITTED"
    /\ RangeHasNext(i + batch_size, Len(comments), batch_size)

\* C25: while a batch is processed, the request holds one line per comment
\* of the batch, with the comment_id and the text of the input at that
\* position, in batch order; the batch is the batch_num-th slice of the
\* list, and no line is that of a comment outside it. The request is thus
\* fixed by the input and the number of the batch.
C25_PromptOfBatchOnly ==
    pc \in {"call_openai_api", "reconcile", "emit", "except"} =>
        /\ batch_idx = [q \in 1..Len(batch_idx) |-> (batch_num - 1) * batch_size + q]
        /\ Len(batch_idx) = Min(batch_size, Len(input) - (batch_num - 1) * batch_size)
        /\ prompt = [k \in 1..Len(batch_idx) |->
                        [comment_id |-> input[batch_idx[k]].comment_id,
                         text |-> input[batch_idx[k]].text_display]]
        /\ \A k \in 1..Len(prompt) :
              \A p \in (1..Len(input)) \ Positions(batch_idx) :
                  /\ prompt[k].comment_id # input[p].comment_id
                  /\ prompt[k].text # input[p].text_display

C25_Witness ==
    /\ pc = "call_openai_api"
    /\ batch_size = 2
    /\ batch_num = 2
    /\ batch_log[1].state = "DEFAULTED"
    /\ Len(prompt) = 1
    /\ prompt[1].comment_id = input[3].comment_id

\* C26 as stated: while classify_comments processes a batch, the request
\* holds one line per comment of that batch and no line of a comment of
\* another batch.
C26_RequestOfBatchOnly ==
    pc \in {"classify_comments.call", "classify_comments.reconcile",
            "classify_comments.except"} =>
        /\ prompt = [k \in 1..Len(batch_idx) |->
                        [comment_id |-> input[batch_idx[k]].comment_id,
                         text |-> input[batch_idx[k]].text_display]]
        /\ \A k \in 1..Len(prompt) :
              \A p \in (1..Len(input)) \ Positions(batch_idx) :
                  prompt[k].comment_id # input[p].comment_id

\* The state of batch k in batch_log and that of its service call.
BatchState(k) == batch_log[k].state
ServiceOf(k) == batch_log[k].svc

C27_StatesInOrder ==
    /\ \A k \in 1..Len(batch_log) :
          /\ k < Len(batch_log) => BatchState(k) \in Terminal
          /\ BatchState(k) = "REQUEST_BUILT" =>
                (ServiceOf(k) = "pending" /\ pc = "call_openai_api")
          /\ BatchState(k) = "SERVICE_CALLED" =>
                (ServiceOf(k) = "ok" /\ pc = "reconcile")
          /\ BatchState(k) = "RECONCILED" => (ServiceOf(k) = "ok" /\ pc = "emit")
          /\ BatchState(k) = "FAILED" => pc = "except"
          /\ BatchState(k) \in {"EMITTED", "EMIT_FAILED"} =>
                (ServiceOf(k) = "ok" /\ WritesOf(k) # {})
          /\ ServiceOf(k) = "raised" =>
                (BatchState(k) \in {"FAILED", "DEFAULTED"} /\ WritesOf(k) = {})
          /\ WritesOf(k) # {} => BatchState(k) \in {"EMITTED", "EMIT_FAILED"}
    /\ pc \in {"for", "returned"} =>
          \A k \in 1..Len(batch_log) : BatchState(k) \in Terminal

C27_Step ==
    /\ Len(batch_log') \in {Len(batch_log), Len(batch_log) + 1}
    /\ Len(batch_log') = Len(batch_log) + 1 =>
          /\ \A k \in 1..Len(batch_log) :
                batch_log[k].state \in Terminal /\ batch_log'[k] = batch_log[k]
          /\ batch_log'[Len(batch_log')].state = "REQUEST_BUILT"
          /\ batch_log'[Len(batch_log')].svc = "pending"
          /\ batch_log'[Len(batch_log')].num = Len(batch_log) + 1
    /\ Len(batch_log') = Len(batch_log) =>
          \A k \in 1..Len(batch_log) :
              \/ batch_log'[k] = batch_log[k]
              \/ /\ k = Len(batch_log)
                 /\ <<batch_log[k].state, batch_log'[k].state>> \in
                       {<<"REQUEST_BUILT", "SERVICE_CALLED">>,
                        <<"REQUEST_BUILT", "FAILED">>,
                        <<"SERVICE_CALLED", "RECONCILED">>,
                        <<"SERVICE_CALLED", "FAILED">>,
                        <<"RECONCILED", "EMITTED">>,
                        <<"RECONCILED", "EMIT_FAILED">>,
                        <<"RECONCILED", "FAILED">>,
                        <<"FAILED", "DEFAULTED">>}
                 /\ batch_log'[k].state = "SERVICE_CALLED" => batch_log'[k].svc = "ok"
                 /\ batch_log[k].state # "REQUEST_BUILT" =>
                       batch_log'[k].svc = batch_log[k].svc
    /\ Len(sink') > Len(sink) =>
          /\ batch_log # <<>>
          /\ batch_log[Len(batch_log)].state = "RECONCILED"
          /\ batch_log[Len(batch_log)].svc = "ok"

\* C27: a batch enters batch_log with its request built and its service
\* call pending; its states follow REQUEST_BUILT, SERVICE_CALLED,
\* RECONCILED, then EMITTED or EMIT_FAILED, or lead through FAILED to
\* DEFAULTED; the sink is written only from RECONCILED, after a service
\* call that returned; a batch whose service call raised is FAILED and then
\* DEFAULTED, with no write to the sink; a batch is taken only when every
\* batch before it is EMITTED, EMIT_FAILED or DEFAULTED.
C27_BatchStateMachine == []C27_StatesInOrder /\ [][C27_Step]_vars

C27_Witness ==
    /\ pc = "returned"
    /\ Len(batch_log) = 3
    /\ BatchState(1) = "EMITTED"
    /\ BatchState(2) = "DEFAULTED"
    /\ ServiceOf(2) = "raised"
    /\ BatchState(3) = "EMIT_FAILED"

\* multiplier * 2^(n - 1) with multiplier 1, raised to the floor of 60 and
\* cut at the ceiling of 70.
ClampedExponential(n) ==
    LET e == 1 * 2^(n - 1) IN
    IF e < 60 THEN 60 ELSE IF e > 70 THEN 70 ELSE e

\* C28: every wait of an invocation of call_openai_api is between 60 and 70
\* seconds: the k-th wait is the clamped exponential of k, which is 60;
\* there are at most two waits, one after each failed attempt that is
\* retried, and none after the third attempt.
C28_WaitBetween60And70 ==
    /\ Len(slept) <= 2
    /\ \A k \in 1..Len(slept) :
          /\ slept[k] >= 60
          /\ slept[k] <= 70
          /\ slept[k] = ClampedExponential(k)
          /\ slept[k] = 60
          /\ k <= Len(attempt_log)
          /\ attempt_log[k] = "raised"
    /\ pc = "call_openai_api" => Len(slept) = attempt
    /\ (pc = "except" /\ last_exc # "") =>
          (attempt = 3 /\ Len(slept) = 2)
    /\ pc \in {"reconcile", "emit"} => Len(slept) = attempt - 1

C28_Witness ==
    /\ pc = "except"
    /\ attempt = 3
    /\ slept = <<60, 60>>
    /\ attempt_log = <<"raised", "raised", "raised">>

C29_Bounds ==
    /\ batch_size >= 1 =>
          /\ Len(batch_log) <= CeilDiv(Len(input), batch_size)
          /\ attempts_made <= 3 * CeilDiv(Len(input), batch_size)
          /\ Len(sink) <= CeilDiv(Len(input), batch_size)
          /\ escaped = ""
    /\ batch_log = <<>> => attempts_made = 0
    /\ attempts_made <= 3 * Len(batch_log)
    /\ pc \in {"call_openai_api", "reconcile", "emit", "except"} =>
          attempts_made <= 3 * (Len(batch_log) - 1) + attempt
    /\ attempt <= 3
    /\ Len(sink) <= Len(batch_log)
    /\ \A k \in 1..Len(batch_log) : Cardinality(WritesOf(k)) <= 1
    /\ \A k \in 1..Len(attempt_log) :
          attempt_log[k] = "returned" => k = Len(attempt_log)
    /\ pc = "call_openai_api" =>
          /\ batch_log[Len(batch_log)].svc = "pending"
          /\ \A k \in 1..Len(attempt_log) : attempt_log[k] = "raised"
    /\ pc # "call_openai_api" =>
          \A k \in 1..Len(batch_log) : batch_log[k].svc # "pending"

\* C29: classify_and_upload_comments called with batch_size >= 1 returns in
\* the end, without an exception, whatever each call of the service and of
\* the sink does; in every state it has made at most 3 attempts per batch
\* taken, at most 3 * ceil(N / batch_size) in all, and at most one write to
\* the sink per batch, at most ceil(N / batch_size) in all; an attempt is
\* made only while no attempt for the batch has returned.
C29_TerminatesWithinBounds ==
    /\ []C29_Bounds
    /\ (batch_size >= 1) => <>(pc = "returned")

C29_Witness ==
    /\ pc = "returned"
    /\ batch_size = 1
    /\ Len(input) = 3
    /\ attempts_made = 9
    /\ Len(sink) = 3
    /\ Len(s3_uris) = 2

\* C30: once the service call of a batch has succeeded and the batch has been
\* reconciled, a failure of the batch's output step (the CSV serialization
\* raising or returning nothing, or the sink write failing) never replaces
\* the reconciled values with the defaults: the defaults are applied only
\* when the service call itself failed.  As a state predicate: whenever the
\* handler that applies the defaults is entered, no comment of the batch
\* holds a reconciled classification that differs from the defaults.
C30_DefaultsOnlyAfterServiceFailure ==
    pc = "except" =>
        \A p \in Positions(batch_idx) :
            ClassificationFields \subseteq DOMAIN comments[p]
                => HasDefaults(comments[p])

====
